---------------------------- MODULE Spec2Model ----------------------------
(***************************************************************************)
(* A model of the data-explorer array viewer (src/data_explorer/app.py):   *)
(* the application window ArrayViewerApp with its frame slider, playback   *)
(* timer and dock list, the ArrayDock display docks with their colour      *)
(* spin boxes, threshold rule and crosshair, and the OperationPanel that   *)
(* derives new arrays.                                                     *)
(*                                                                         *)
(* Numbers.  Pixel values, spin box values and thresholds are integers in  *)
(* thousandths (the resolution of the three-decimal spin boxes and of the  *)
(* "Value=%.3f" overlay).  Scene and cursor coordinates are integers in    *)
(* half pixels, so that x = 3 stands for 1.5; this is the resolution at    *)
(* which the rounding of mouse_moved and the truncation of sync_crosshair  *)
(* differ.  Indices are 0-based as in the source.                          *)
(***************************************************************************)
EXTENDS Integers, Sequences, FiniteSets, TLC

VARIABLES
    arrays,            \* ArrayViewerApp.arrays: the constructor's arrays
    num_frames,        \* ArrayViewerApp.num_frames
    enforced_shape,    \* ArrayViewerApp._enforced_shape
    docks,             \* ArrayViewerApp.docks: sequence of dock records
    dock_instances,    \* ArrayViewerApp.dock_instances: title -> counter
    slider,            \* slider.value()
    play_checked,      \* play_button.isChecked()
    timer_active,      \* timer.isActive()
    crosshair_checked, \* crosshair_cb.isChecked()
    op_enabled,        \* operation_panel.isEnabled()
    op_form,           \* OperationPanel: form visibility, combos, current_op
    panel,             \* the image-configuration panels of the first dock
    last,              \* the handler that ran last, with its inputs
    err                \* the exception the last handler ended with, or "none"

vars == <<arrays, num_frames, enforced_shape, docks, dock_instances, slider,
          play_checked, timer_active, crosshair_checked, op_enabled, op_form,
          panel, last, err>>

-----------------------------------------------------------------------------
(* Bounds of the model and program constants.                              *)

MaxFrames == 2
MaxHeight == 1
MaxWidth == 2
MaxDocks == 3
MaxTitleLen == 5

Decimals == 3
InitialDecimals == 2
ThresholdLow == 0
ThresholdHigh == 1
LowPercentile == 1
HighPercentile == 99
MidPercentile == 50

COLOURMAPS == <<"gray", "viridis", "plasma", "inferno", "magma">>
TWO_PIECE_OPERATIONS == <<"-", "/", "+">>
THRESHOLD_OPERATIONS == <<">", "<", ">=", "<=", "==">>

NoThreshold == "none"
ThresholdColourmap == "gray"

-----------------------------------------------------------------------------
(* Arithmetic helpers.                                                     *)

\* The element of a one-element set.  { e(x) : x \in {v} } evaluates v once and
\* binds x to its value.
Only(S) == CHOOSE v \in S : TRUE

Min(a, b) == IF a <= b THEN a ELSE b
Max(a, b) == IF a >= b THEN a ELSE b
Abs(a) == IF a < 0 THEN -a ELSE a

RECURSIVE Pow10(_)
Pow10(n) == IF n = 0 THEN 1 ELSE 10 * Pow10(n - 1)

\* One unit (1.0) in thousandths.
Unit == Pow10(Decimals)

\* Python's int(): truncation towards zero, of h half-units.
IntOfHalves(h) == IF h >= 0 THEN h \div 2 ELSE -((-h) \div 2)

\* numpy's round(): to the nearest integer, ties to the even one, of h halves.
RoundHalves(h) ==
    IF h % 2 = 0 THEN h \div 2
    ELSE LET lo == (h - 1) \div 2 IN IF lo % 2 = 0 THEN lo ELSE lo + 1

\* numpy's clip(lo, hi).
Clip(v, lo, hi) == Min(Max(v, lo), hi)

\* Truncating division of signed integers (towards zero).
TruncDiv(a, b) ==
    LET q == Abs(a) \div Abs(b) IN IF (a < 0) = (b < 0) THEN q ELSE -q

\* QDoubleSpinBoxPrivate::round at the given number of decimals, of a value
\* in thousandths: the nearest multiple of 10^(3 - decimals), ties away from 0.
RoundTo(v, decimals) ==
    LET step == Pow10(Decimals - decimals)
        q == (2 * Abs(v) + step) \div (2 * step)
    IN  IF v < 0 THEN -(q * step) ELSE q * step

-----------------------------------------------------------------------------
(* Arrays: a shape and the values at every index tuple.                    *)

RECURSIVE Indices(_)
Indices(shape) ==
    IF shape = <<>> THEN {<<>>}
    ELSE {<<i>> \o rest : i \in 0..(Head(shape) - 1), rest \in Indices(Tail(shape))}

RECURSIVE SumSeq(_)
SumSeq(s) == IF s = <<>> THEN 0 ELSE Head(s) + SumSeq(Tail(s))

\* The sample data: sample 1 is positive everywhere, sample 2 has zeros and
\* negative values.
SampleIds == {1, 2}
SampleValue(k, idx) ==
    LET c == idx[Len(idx)]
        rest == SumSeq(idx) - c
    IN  (k * c + (3 - 2 * k) * rest + (2 - k)) * Unit

SampleArray(k, shape) ==
    [shape |-> shape, data |-> [idx \in Indices(shape) |-> SampleValue(k, idx)]]

MainShape == <<MaxFrames, MaxHeight, MaxWidth>>
TransposedShape == <<MaxFrames, MaxWidth, MaxHeight>>
StackedShape == <<1>> \o MainShape
FlatShape == <<MaxHeight, MaxWidth>>

ndim(array) == Len(array.shape)

\* array.shape[-3:]
LastThree(shape) ==
    IF Len(shape) <= 3 THEN shape ELSE SubSeq(shape, Len(shape) - 2, Len(shape))

Values(array) == {array.data[idx] : idx \in DOMAIN array.data}

SetMin(S) == CHOOSE x \in S : \A y \in S : x <= y
SetMax(S) == CHOOSE x \in S : \A y \in S : x >= y

nanmin(array) == SetMin(Values(array))
nanmax(array) == SetMax(Values(array))

\* The values of the array in increasing order, with repetitions.
RECURSIVE SortedFrom(_, _)
SortedFrom(array, left) ==
    IF left = {} THEN <<>>
    ELSE LET m == SetMin({array.data[i] : i \in left})
             i == CHOOSE j \in left : array.data[j] = m
         IN  <<m>> \o SortedFrom(array, left \ {i})

\* numpy.nanpercentile(array, p), linear interpolation between the two
\* nearest ranks; the result is cut to thousandths.
nanpercentile(array, p) ==
    LET s == SortedFrom(array, DOMAIN array.data)
        n == Len(s)
        pos == p * (n - 1)            \* rank, in hundredths
        lo == pos \div 100
        frac == pos % 100
    IN  IF lo + 1 >= n THEN s[n]
        ELSE s[lo + 1] + TruncDiv(frac * (s[lo + 2] - s[lo + 1]), 100)

-----------------------------------------------------------------------------
(* QDoubleSpinBox: a value kept inside [min, max].  Each setter returns    *)
(* the new spin box; the caller compares values to know whether            *)
(* valueChanged was emitted.                                               *)

\* QAbstractSpinBoxPrivate::setRange: the maximum is never below the minimum
\* and the value is bound into the new range.
SpinSetRange(s, mn, mx) ==
    LET top == IF mn < mx THEN mx ELSE mn
    IN  [value |-> Clip(s.value, mn, top), min |-> mn, max |-> top]

SpinSetMinimum(s, m) == SpinSetRange(s, m, IF s.max > m THEN s.max ELSE m)

SpinSetMaximum(s, m) == SpinSetRange(s, IF s.min < m THEN s.min ELSE m, m)

\* QDoubleSpinBox::setValue: round to the decimals, then bound.
SpinSetValueAt(s, v, decimals) ==
    [s EXCEPT !.value = Clip(RoundTo(v, decimals), s.min, s.max)]

SpinSetValue(s, v) == SpinSetValueAt(s, v, Decimals)

\* primitives.build_double_spinbox: the range and the default are set while
\* the box still has its initial two decimals; setDecimals then re-rounds the
\* range from the unrounded bounds and re-sets the (already rounded) value.
build_double_spinbox(mn, mx, default) ==
    LET fresh == [value |-> 0, min |-> 0, max |-> 0]
        ranged == SpinSetRange(fresh, RoundTo(mn, InitialDecimals),
                               RoundTo(mx, InitialDecimals))
        valued == SpinSetValueAt(ranged, default, InitialDecimals)
        reranged == SpinSetRange(valued, RoundTo(mn, Decimals), RoundTo(mx, Decimals))
    IN  SpinSetValue(reranged, reranged.value)

-----------------------------------------------------------------------------
(* ArrayDock.                                                              *)

Frames(array) == array.shape[1]
Height(array) == array.shape[2]
Width(array) == array.shape[3]

\* THRESHOLD_OPERATIONS[...].calculation on one value.
ThresholdCalc(op, v, threshold) ==
    CASE op = ">" -> v > threshold
      [] op = "<" -> v < threshold
      [] op = ">=" -> v >= threshold
      [] op = "<=" -> v <= threshold
      [] op = "==" -> v = threshold

\* array[frame], with the threshold rule applied when one is armed.  A
\* boolean pixel is held as the number it is displayed and printed as: True
\* as 1.0, False as 0.0.
BoolValue(b) == IF b THEN Unit ELSE 0
FrameImage(array, frame, op, threshold) ==
    [rc \in Indices(<<Height(array), Width(array)>>) |->
        IF op = NoThreshold THEN array.data[<<frame>> \o rc]
        ELSE BoolValue(ThresholdCalc(op, array.data[<<frame>> \o rc], threshold))]

\* The transposed image handed to image_item.setImage.
DisplayImage(array, frame, op, threshold) ==
    LET img == FrameImage(array, frame, op, threshold)
    IN  [cr \in Indices(<<Width(array), Height(array)>>) |-> img[<<cr[2], cr[1]>>]]

\* Python indexing of an axis of length n: negative indices count from the
\* end, anything outside [-n, n-1] raises IndexError.
InAxis(i, n) == -n <= i /\ i < n
AxisIndex(i, n) == IF i < 0 THEN i + n ELSE i

\* The text of value_text, f"Value={value:.3f}": not-a-number, or the value in
\* thousandths; a numpy bool prints as 1.000 or 0.000.
NaNText == [nan |-> TRUE, milli |-> 0]
FloatText(v) == [nan |-> FALSE, milli |-> v]

\* ArrayDock.sync_crosshair
sync_crosshair(dock, x, y) ==
    LET ix == IntOfHalves(x)
        iy == IntOfHalves(y)
        op == dock.threshold_op
        inside == /\ InAxis(dock.frame, Frames(dock.array))
                  /\ InAxis(iy, Height(dock.array))
                  /\ InAxis(ix, Width(dock.array))
        image == FrameImage(dock.array, AxisIndex(dock.frame, Frames(dock.array)), op,
                            dock.threshold_value.value)
        value == IF inside
                 THEN FloatText(image[<<AxisIndex(iy, Height(dock.array)),
                                        AxisIndex(ix, Width(dock.array))>>])
                 ELSE NaNText
    IN  [dock EXCEPT !.cursor = <<x, y>>,
                     !.value_text = value,
                     !.pos_text = <<ix, iy>>]

\* An update_clim that sets the image levels and leaves the ranges of the two
\* spin boxes alone.
update_clim_levels_only(dock) ==
    [dock EXCEPT !.levels = <<dock.vmin.value, dock.vmax.value>>]

\* ArrayDock.update_clim, with the nested calls its own setMinimum and
\* setMaximum make through valueChanged when they move a value.
RECURSIVE update_clim(_)
update_clim(dock) ==
    LET levelled == [dock EXCEPT !.levels = <<dock.vmin.value, dock.vmax.value>>]
        newmax == SpinSetMinimum(levelled.vmax, levelled.vmin.value)
        d1 == [levelled EXCEPT !.vmax = newmax]
        d2 == IF newmax.value # levelled.vmax.value THEN update_clim(d1) ELSE d1
        newmin == SpinSetMaximum(d2.vmin, d2.vmax.value)
        d3 == [d2 EXCEPT !.vmin = newmin]
    IN  IF newmin.value # d2.vmin.value THEN update_clim(d3) ELSE d3

\* ArrayDock.set_frame.  _frame is assigned before the array is indexed, so a
\* frame outside the array (IndexError) leaves the dock with the new frame
\* and the old image.
FrameInArray(dock, frame) == InAxis(frame, Frames(dock.array))
set_frame(dock, frame) ==
    IF ~FrameInArray(dock, frame) THEN [dock EXCEPT !.frame = frame]
    ELSE Only({sync_crosshair(climmed, climmed.cursor[1], climmed.cursor[2]) :
               climmed \in {update_clim(
                   [dock EXCEPT
                      !.frame = frame,
                      !.image = DisplayImage(dock.array, AxisIndex(frame, Frames(dock.array)),
                                             dock.threshold_op,
                                             dock.threshold_value.value)])}})

\* ArrayDock.is_copy
is_copy(dock) == dock.instance_number > 1

\* ArrayDock.__init__ for a 3-dimensional array (with _init_ui and
\* _build_control_panel).
NewDock(array, title, instance_number, is_derived) ==
    LET lo == nanmin(array)
        hi == nanmax(array)
        built ==
          [title |-> title,
           array |-> array,
           frame |-> 0,
           instance_number |-> instance_number,
           is_derived |-> is_derived,
           closable |-> (instance_number > 1 \/ is_derived),
           duplicate_button |-> ~(instance_number > 1),
           threshold_op |-> NoThreshold,
           colour_cache |-> <<"", 0, 0>>,
           cmap |-> COLOURMAPS[1],
           vmin |-> build_double_spinbox(lo, hi, nanpercentile(array, LowPercentile)),
           vmax |-> build_double_spinbox(lo, hi, nanpercentile(array, HighPercentile)),
           colour_enabled |-> TRUE,
           threshold_value |->
               build_double_spinbox(lo, hi, nanpercentile(array, MidPercentile)),
           threshold_form_shown |-> FALSE,
           threshold_button_shown |-> TRUE,
           image |-> <<>>,
           levels |-> <<0, 0>>,
           cursor |-> <<0, 0>>,
           value_text |-> NaNText,
           pos_text |-> <<0, 0>>,
           crosshair_visible |-> TRUE]
    IN  set_frame(built, 0)

-----------------------------------------------------------------------------
(* ArrayViewerApp: registration, duplication and closing of docks.         *)

\* _enforced_shape before the first registration (None).
NoShape == <<>>

\* dict.get(key, default) and dict[key] = value on a function.
DictGet(d, k, default) == IF k \in DOMAIN d THEN d[k] ELSE default
DictSet(d, k, v) == [x \in (DOMAIN d) \cup {k} |-> IF x = k THEN v ELSE d[x]]

\* list.remove of the dock at position i (docks compare by identity).
RemoveAt(seq, i) == SubSeq(seq, 1, i - 1) \o SubSeq(seq, i + 1, Len(seq))

\* ArrayViewerApp.get_original_docks, as the positions of the docks.
get_original_docks(ds) == {i \in 1..Len(ds) : ~is_copy(ds[i])}

\* The titles of the original docks, in dock order.
RECURSIVE OriginalTitlesFrom(_, _)
OriginalTitlesFrom(ds, i) ==
    IF i > Len(ds) THEN <<>>
    ELSE (IF i \in get_original_docks(ds) THEN <<ds[i].title>> ELSE <<>>)
         \o OriginalTitlesFrom(ds, i + 1)
OriginalTitles(ds) == OriginalTitlesFrom(ds, 1)

\* A _validate_shape_of that records the shape and never raises.
validate_shape_of_lenient(enforced, array) ==
    [enforced_shape |-> IF enforced = NoShape THEN LastThree(array.shape) ELSE enforced,
     ok |-> TRUE]

\* ArrayViewerApp._validate_shape_of: the enforced shape afterwards and
\* whether the array was accepted (no ValueError).
validate_shape_of(enforced, array) ==
    LET shape == IF enforced = NoShape THEN LastThree(array.shape) ELSE enforced
    IN  [enforced_shape |-> shape, ok |-> (LastThree(array.shape) = shape)]

\* An on_new_array_added that counts every open dock, copies included.
on_new_array_added_counting_copies(ds) == Len(ds) >= 2

\* ArrayViewerApp.on_new_array_added: whether the operation panel is enabled.
on_new_array_added(ds) == Cardinality(get_original_docks(ds)) >= 2

\* An _add_array whose dock takes an array of more than three dimensions by
\* its first block along the leading axes instead of refusing it.
add_array_first_block(st, array, title, is_derived) ==
    LET checked == validate_shape_of(st.enforced_shape, array)
        counted == DictSet(st.dock_instances, title,
                           DictGet(st.dock_instances, title, 0) + 1)
        leading == [k \in 1..(ndim(array) - 3) |-> 0]
        block == [shape |-> LastThree(array.shape),
                  data |-> [idx \in Indices(LastThree(array.shape)) |->
                               array.data[leading \o idx]]]
    IN  IF ~checked.ok \/ ndim(array) < 3
        THEN [st EXCEPT !.enforced_shape = checked.enforced_shape,
                        !.err = "ValueError"]
        ELSE LET ds == Append(st.docks,
                              NewDock(block, title, counted[title], is_derived))
             IN  [enforced_shape |-> checked.enforced_shape,
                  dock_instances |-> counted,
                  docks |-> ds,
                  op_enabled |-> on_new_array_added(ds),
                  err |-> "none"]

\* ArrayViewerApp._add_array on the application state st (the fields
\* enforced_shape, dock_instances, docks, op_enabled); err is the exception
\* that ended it.  The counter is incremented before ArrayDock.__init__ checks
\* the number of dimensions.
add_array(st, array, title, is_derived) ==
    LET checked == validate_shape_of(st.enforced_shape, array)
        counted == DictSet(st.dock_instances, title,
                           DictGet(st.dock_instances, title, 0) + 1)
    IN  IF ~checked.ok
        THEN [st EXCEPT !.enforced_shape = checked.enforced_shape,
                        !.err = "ValueError"]
        ELSE IF ndim(array) # 3
        THEN [st EXCEPT !.enforced_shape = checked.enforced_shape,
                        !.dock_instances = counted,
                        !.err = "ValueError"]
        ELSE LET ds == Append(st.docks,
                              NewDock(array, title, counted[title], is_derived))
             IN  [enforced_shape |-> checked.enforced_shape,
                  dock_instances |-> counted,
                  docks |-> ds,
                  op_enabled |-> on_new_array_added(ds),
                  err |-> "none"]

\* A _remove_dock whose list.remove compares docks by title: the first dock
\* of that title goes.
remove_dock_first_titled(st, i) ==
    LET first == CHOOSE k \in 1..Len(st.docks) :
                    /\ st.docks[k].title = st.docks[i].title
                    /\ \A j \in 1..(k - 1) : st.docks[j].title # st.docks[i].title
    IN  [st EXCEPT !.docks = RemoveAt(st.docks, first),
                   !.dock_instances =
                       DictSet(st.dock_instances, st.docks[i].title,
                               st.dock_instances[st.docks[i].title] - 1)]

\* ArrayViewerApp._remove_dock
remove_dock(st, i) ==
    [st EXCEPT !.docks = RemoveAt(st.docks, i),
               !.dock_instances =
                   DictSet(st.dock_instances, st.docks[i].title,
                           st.dock_instances[st.docks[i].title] - 1)]

\* An update_frames that reaches the first dock only.
update_frames_first_only(ds, frame) ==
    IF ds = <<>> THEN <<>> ELSE <<set_frame(Head(ds), frame)>> \o Tail(ds)

\* ArrayViewerApp.update_frames: set_frame on every dock in order; an
\* IndexError in one dock ends the loop.
RECURSIVE update_frames(_, _)
update_frames(ds, frame) ==
    IF ds = <<>> THEN <<>>
    ELSE IF ~FrameInArray(Head(ds), frame)
    THEN <<set_frame(Head(ds), frame)>> \o Tail(ds)
    ELSE Only({<<set_frame(d, frame)>> : d \in {Head(ds)}})
         \o update_frames(Tail(ds), frame)

FramesError(ds, frame) ==
    IF \E i \in 1..Len(ds) : ~FrameInArray(ds[i], frame) THEN "IndexError" ELSE "none"

\* The application state the pure operators work on.
AppState ==
    [enforced_shape |-> enforced_shape, dock_instances |-> dock_instances,
     docks |-> docks, op_enabled |-> op_enabled, err |-> "none"]

\* ArrayViewerApp.__init__: register zip(arrays, titles) in order, stopping at
\* the first exception, then update_frames(0).
RECURSIVE RegisterAll(_, _, _, _)
RegisterAll(st, arrs, titles, i) ==
    IF i > Min(Len(arrs), Len(titles)) \/ st.err # "none" THEN st
    ELSE Only({RegisterAll(next, arrs, titles, i + 1) :
               next \in {add_array(st, arrs[i], titles[i], FALSE)}})

Construct(arrs, titles) ==
    Only({IF st.err # "none" THEN st
          ELSE [st EXCEPT !.docks = update_frames(st.docks, 0)] :
          st \in {RegisterAll([enforced_shape |-> NoShape, dock_instances |-> <<>>,
                               docks |-> <<>>, op_enabled |-> TRUE, err |-> "none"],
                              arrs, titles, 1)}})

\* The inputs of the constructor: one or two arrays with their titles, the
\* first array of the main shape.
InitialTitles == {"A", "B"}
ConstructorInputs ==
    {[arrays |-> <<SampleArray(k, MainShape)>>, titles |-> <<"A">>] : k \in SampleIds}
    \cup {[arrays |-> <<SampleArray(k, MainShape), SampleArray(3 - k, sh)>>,
           titles |-> <<"A", t>>] :
             k \in SampleIds, sh \in {MainShape, TransposedShape}, t \in InitialTitles}

-----------------------------------------------------------------------------
(* The image-configuration panel of a dock, in its two versions: the one   *)
(* of docks/image_settings.py, whose set_config runs under QSignalBlocker, *)
(* and the one of docks/panels/image_configuration.py, whose set_config    *)
(* leaves the signals live and which has the reset button.  A panel is its *)
(* colormap combo box and its two spin boxes, as _build_ui and             *)
(* _connect_signals leave them.                                            *)

\* ArrayDock.get_array_bounds: the least and the greatest value of the
\* dock's array.
get_array_bounds(array) == <<nanmin(array), nanmax(array)>>

\* image_settings._build_ui: each spin box gets its range, then its value at
\* the initial two decimals, then three decimals.
build_settings_panel(array) ==
    [cmap |-> COLOURMAPS[1],
     vmin |-> build_double_spinbox(nanmin(array), nanmax(array),
                                   nanpercentile(array, LowPercentile)),
     vmax |-> build_double_spinbox(nanmin(array), nanmax(array),
                                   nanpercentile(array, HighPercentile))]

\* A spin box of image_configuration._build_ui: setRange at the initial two
\* decimals, setDecimals(3), which re-rounds the range and re-sets the value,
\* then setValue.
build_configuration_spinbox(mn, mx, value) ==
    LET fresh == [value |-> 0, min |-> 0, max |-> 0]
        ranged == SpinSetRange(fresh, RoundTo(mn, InitialDecimals),
                               RoundTo(mx, InitialDecimals))
        reranged == SpinSetRange(ranged, RoundTo(mn, Decimals), RoundTo(mx, Decimals))
        revalued == SpinSetValue(reranged, reranged.value)
    IN  SpinSetValue(revalued, value)

\* image_configuration._build_ui
build_configuration_panel(array) ==
    LET bounds == get_array_bounds(array)
    IN  [cmap |-> COLOURMAPS[1],
         vmin |-> build_configuration_spinbox(bounds[1], bounds[2], bounds[1]),
         vmax |-> build_configuration_spinbox(bounds[1], bounds[2], bounds[2])]

\* ImageConfigurationPanel.get_config
get_config(p) == [cmap |-> p.cmap, vmin |-> p.vmin.value, vmax |-> p.vmax.value]

\* ImageConfigurationPanel._on_config_changed, with the nested calls its own
\* setMaximum and setMinimum make through valueChanged when they move a value.
RECURSIVE on_config_changed(_)
on_config_changed(p) ==
    LET newmin == SpinSetMaximum(p.vmin, p.vmax.value)
        p1 == [p EXCEPT !.vmin = newmin]
        p2 == IF newmin.value # p.vmin.value THEN on_config_changed(p1) ELSE p1
        newmax == SpinSetMinimum(p2.vmax, p2.vmin.value)
        p3 == [p2 EXCEPT !.vmax = newmax]
    IN  IF newmax.value # p2.vmax.value THEN on_config_changed(p3) ELSE p3

\* QComboBox.setCurrentText on the non-editable combo box: a listed text is
\* selected, any other text is ignored.
ComboSetCurrentText(current, text) ==
    IF \E k \in 1..Len(COLOURMAPS) : COLOURMAPS[k] = text THEN text ELSE current

\* cmap_combo_box.setCurrentText with the signals live
panel_set_cmap(p, name) ==
    LET chosen == ComboSetCurrentText(p.cmap, name)
    IN  IF chosen # p.cmap THEN on_config_changed([p EXCEPT !.cmap = chosen]) ELSE p

\* vmin_spinbox.setValue with the signals live
panel_set_vmin(p, v) ==
    LET spun == SpinSetValue(p.vmin, v)
    IN  IF spun.value # p.vmin.value
        THEN on_config_changed([p EXCEPT !.vmin = spun])
        ELSE p

\* vmax_spinbox.setValue with the signals live
panel_set_vmax(p, v) ==
    LET spun == SpinSetValue(p.vmax, v)
    IN  IF spun.value # p.vmax.value
        THEN on_config_changed([p EXCEPT !.vmax = spun])
        ELSE p

\* image_settings.ImageConfigurationPanel.set_config: the three widgets are
\* set with their signals blocked, so _on_config_changed does not run.
settings_set_config(p, config) ==
    [cmap |-> ComboSetCurrentText(p.cmap, config.cmap),
     vmin |-> SpinSetValue(p.vmin, config.vmin),
     vmax |-> SpinSetValue(p.vmax, config.vmax)]

\* image_configuration.ImageConfigurationPanel.set_config: combo box, then
\* minimum, then maximum, each running _on_config_changed when it moves.
configuration_set_config(p, config) ==
    panel_set_vmax(panel_set_vmin(panel_set_cmap(p, config.cmap), config.vmin),
                   config.vmax)

\* A reset to the 1st and 99th percentile of the array, the range the panel
\* of image_settings starts with.
set_to_percentiles(p, array) ==
    configuration_set_config(p, [cmap |-> get_config(p).cmap,
                                 vmin |-> nanpercentile(array, LowPercentile),
                                 vmax |-> nanpercentile(array, HighPercentile)])

\* image_configuration.ImageConfigurationPanel._set_to_data_range, for the
\* array of the parent dock.
set_to_data_range(p, array) ==
    LET bounds == get_array_bounds(array)
    IN  configuration_set_config(p, [cmap |-> get_config(p).cmap,
                                     vmin |-> bounds[1], vmax |-> bounds[2]])

\* The two panels built for a dock.
BuildPanels(dock) ==
    [settings |-> build_settings_panel(dock.array),
     configuration |-> build_configuration_panel(dock.array)]

NoForm ==
    [shown |-> FALSE, a_items |-> <<>>, a_current |-> "",
     b_items |-> <<>>, b_current |-> "", current_op |-> ""]

\* The state once the constructor has returned without an exception.
Init ==
    \E input \in ConstructorInputs :
      \E st \in {Construct(input.arrays, input.titles)} :
        /\ Len(input.arrays) = Len(input.titles)
        /\ st.err = "none"
        /\ arrays = input.arrays
        /\ num_frames = input.arrays[1].shape[1]
        /\ enforced_shape = st.enforced_shape
        /\ docks = st.docks
        /\ dock_instances = st.dock_instances
        /\ slider = 0
        /\ play_checked = FALSE
        /\ timer_active = FALSE
        /\ crosshair_checked = TRUE
        /\ op_enabled = st.op_enabled
        /\ op_form = NoForm
        /\ panel = BuildPanels(st.docks[1])
        /\ last = <<"init">>
        /\ err = "none"

\* The assignment of an application state to the variables.
Assign(st) ==
    /\ enforced_shape' = st.enforced_shape
    /\ dock_instances' = st.dock_instances
    /\ docks' = st.docks
    /\ op_enabled' = st.op_enabled
    /\ err' = st.err

\* The arrays a caller may hand to register_array after construction: a
\* sample of the main shape, of another 3-dimensional shape, of a
\* 4-dimensional shape ending in the main shape and of a 2-dimensional one.
RegisterInputs ==
    {SampleArray(1, sh) : sh \in {MainShape, TransposedShape, StackedShape, FlatShape}}

\* The bounds on the docks, on the sum of the counters and on the length of a
\* title the model lets an addition reach.
RECURSIVE SumOver(_, _)
SumOver(d, keys) ==
    IF keys = {} THEN 0
    ELSE LET k == CHOOSE x \in keys : TRUE IN d[k] + SumOver(d, keys \ {k})

WithinBounds(title) ==
    /\ Len(docks) < MaxDocks
    /\ SumOver(dock_instances, DOMAIN dock_instances) < MaxDocks
    /\ Len(title) <= MaxTitleLen

\* ArrayViewerApp.register_array
RegisterArray(array, title) ==
    /\ WithinBounds(title)
    /\ \E st \in {add_array(AppState, array, title, FALSE)} : Assign(st)
    /\ last' = <<"register_array", array.shape, title>>
    /\ UNCHANGED <<panel, arrays, num_frames, slider, play_checked, timer_active,
                   crosshair_checked, op_form>>

\* ArrayDock.on_duplicate_pressed -> ArrayViewerApp.duplicate_dock; only a
\* dock that is not a copy has the button.
DuplicateDock(i) ==
    /\ docks[i].duplicate_button
    /\ WithinBounds(docks[i].title)
    /\ \E st \in {add_array(AppState, docks[i].array, docks[i].title, FALSE)} :
          Assign(st)
    /\ last' = <<"duplicate_dock", i>>
    /\ UNCHANGED <<panel, arrays, num_frames, slider, play_checked, timer_active,
                   crosshair_checked, op_form>>

\* ArrayDock.closeEvent -> ArrayViewerApp._remove_dock; only a closable dock
\* has the close control.
CloseDock(i) ==
    /\ docks[i].closable
    /\ \E st \in {remove_dock(AppState, i)} : Assign(st)
    /\ last' = <<"close", i>>
    /\ UNCHANGED <<panel, arrays, num_frames, slider, play_checked, timer_active,
                   crosshair_checked, op_form>>

-----------------------------------------------------------------------------
(* OperationPanel.                                                         *)

InSeq(x, seq) == \E i \in 1..Len(seq) : seq[i] = x

RECURSIVE Without(_, _)
Without(seq, x) ==
    IF seq = <<>> THEN <<>>
    ELSE (IF Head(seq) = x THEN <<>> ELSE <<Head(seq)>>) \o Without(Tail(seq), x)

\* OperationPanel._filter_combo_b: refill combo_b with the original titles
\* other than the selected one, keeping its current text when still offered
\* (a refilled combo box otherwise shows its first item).
filter_combo_b(form, ds, selected_title) ==
    LET available_titles == Without(OriginalTitles(ds), selected_title)
        current == form.b_current
    IN  [form EXCEPT
           !.b_items = available_titles,
           !.b_current = IF InSeq(current, available_titles) THEN current
                         ELSE IF available_titles = <<>> THEN ""
                         ELSE available_titles[1]]

\* OperationPanel._show_form: combo_a.clear() and combo_a.addItems(titles)
\* each emit currentTextChanged when the current text changes.
show_form(form, ds, operation) ==
    LET titles == OriginalTitles(ds)
        emptied == [form EXCEPT !.a_items = <<>>, !.a_current = ""]
        cleared == IF form.a_current # "" THEN filter_combo_b(emptied, ds, "")
                   ELSE emptied
        filled == IF titles = <<>> THEN cleared
                  ELSE filter_combo_b([cleared EXCEPT !.a_items = titles,
                                                      !.a_current = titles[1]],
                                      ds, titles[1])
    IN  [filled EXCEPT !.current_op = operation, !.shown = TRUE]

\* An element that is inf or nan: a number beyond every finite element a
\* calculation on the sample arrays produces.
NonFinite == Unit * Unit

\* TWO_PIECE_OPERATIONS[...].calculation: the new array.  A quotient is kept
\* to thousandths; a division by zero gives inf or nan.
Calculation(op, a, b) ==
    [shape |-> a.shape,
     data |-> [idx \in DOMAIN a.data |->
                 CASE op = "-" -> a.data[idx] - b.data[idx]
                   [] op = "+" -> a.data[idx] + b.data[idx]
                   [] op = "/" -> IF b.data[idx] = 0 THEN NonFinite
                                  ELSE TruncDiv(a.data[idx] * Unit, b.data[idx])]]

\* np.errstate(divide="raise", invalid="raise") lets the calculation through:
\* no element is divided by zero.
Divisible(a, b) == \A idx \in DOMAIN b.data : b.data[idx] # 0

\* np.isnan(new_arr).any() or np.isinf(new_arr).any()
HasNonFinite(array) == \E idx \in DOMAIN array.data : array.data[idx] = NonFinite

\* A _create that neither raises on a division by zero nor looks at the
\* result.
FiniteUnchecked(op, a, b) == TRUE

\* The try block of _create ends without FloatingPointError.
Finite(op, a, b) ==
    /\ op # "/" \/ Divisible(a, b)
    /\ ~HasNonFinite(Calculation(op, a, b))

\* next(d for d in get_original_docks() if d.get_title() == title): the
\* position of the first such dock, 0 when there is none (StopIteration).
FirstOriginal(ds, title) ==
    LET hits == {i \in get_original_docks(ds) : ds[i].title = title}
    IN  IF hits = {} THEN 0 ELSE SetMin(hits)

\* A title that joins the operands and the operator without the spaces.
DerivedTitleUnspaced(a_title, operator, b_title) ==
    a_title \o operator \o b_title

\* f"{a_title} {operator} {b_title}"
DerivedTitle(a_title, operator, b_title) ==
    a_title \o " " \o operator \o " " \o b_title

\* The buttons "Calculate ... of two arrays": OperationPanel._show_form
ShowForm(operation) ==
    /\ op_enabled
    /\ ~op_form.shown
    /\ op_form' = show_form(op_form, docks, operation)
    /\ last' = <<"show_form", operation>>
    /\ err' = "none"
    /\ UNCHANGED <<panel, arrays, num_frames, enforced_shape, docks, dock_instances,
                   slider, play_checked, timer_active, crosshair_checked,
                   op_enabled>>

\* The user picks another entry of combo_a: currentTextChanged ->
\* _filter_combo_b
SelectA(title) ==
    /\ op_enabled
    /\ op_form.shown
    /\ InSeq(title, op_form.a_items)
    /\ title # op_form.a_current
    /\ op_form' = filter_combo_b([op_form EXCEPT !.a_current = title], docks, title)
    /\ last' = <<"select_a", title>>
    /\ err' = "none"
    /\ UNCHANGED <<panel, arrays, num_frames, enforced_shape, docks, dock_instances,
                   slider, play_checked, timer_active, crosshair_checked,
                   op_enabled>>

\* The user picks another entry of combo_b.
SelectB(title) ==
    /\ op_enabled
    /\ op_form.shown
    /\ InSeq(title, op_form.b_items)
    /\ title # op_form.b_current
    /\ op_form' = [op_form EXCEPT !.b_current = title]
    /\ last' = <<"select_b", title>>
    /\ err' = "none"
    /\ UNCHANGED <<panel, arrays, num_frames, enforced_shape, docks, dock_instances,
                   slider, play_checked, timer_active, crosshair_checked,
                   op_enabled>>

\* The Cancel button: OperationPanel._reset
ResetForm ==
    /\ op_enabled
    /\ op_form.shown
    /\ op_form' = [op_form EXCEPT !.shown = FALSE]
    /\ last' = <<"reset">>
    /\ err' = "none"
    /\ UNCHANGED <<panel, arrays, num_frames, enforced_shape, docks, dock_instances,
                   slider, play_checked, timer_active, crosshair_checked,
                   op_enabled>>

\* The Create button: OperationPanel._create.  The bounds limit the additions
\* only: a Create whose lookup fails adds nothing and is always possible.
Create ==
    LET a_title == op_form.a_current
        b_title == op_form.b_current
        ia == FirstOriginal(docks, a_title)
        ib == FirstOriginal(docks, b_title)
        operator == op_form.current_op
        new_title == DerivedTitle(a_title, operator, b_title)
    IN  /\ op_enabled
        /\ op_form.shown
        /\ (ia = 0 \/ ib = 0) \/ WithinBounds(new_title)
        /\ last' = <<"create", a_title, operator, b_title>>
        /\ UNCHANGED <<panel, arrays, num_frames, slider, play_checked, timer_active,
                       crosshair_checked>>
        /\ IF ia = 0 \/ ib = 0
           THEN /\ err' = "StopIteration"
                /\ UNCHANGED <<enforced_shape, docks, dock_instances, op_enabled,
                               op_form>>
           ELSE IF ~Finite(operator, docks[ia].array, docks[ib].array)
           THEN /\ err' = "FloatingPointError"
                /\ UNCHANGED <<enforced_shape, docks, dock_instances, op_enabled,
                               op_form>>
           ELSE \E st \in {add_array(AppState,
                                       Calculation(operator, docks[ia].array,
                                                   docks[ib].array),
                                       new_title, TRUE)} :
                    /\ Assign(st)
                    /\ op_form' = IF st.err = "none"
                                  THEN [op_form EXCEPT !.shown = FALSE]
                                  ELSE op_form

-----------------------------------------------------------------------------
(* The dock lifecycle: registration, duplication, derivation, closing.     *)

RegisterTitles == {"A", "B"}

\* The operation the lifecycle specification derives with; the docks are
\* created and closed the same way for every operation.
DockOperations == {TWO_PIECE_OPERATIONS[1]}

NextDocks ==
    \/ \E a \in RegisterInputs, t \in RegisterTitles : RegisterArray(a, t)
    \/ \E i \in 1..Len(docks) : DuplicateDock(i)
    \/ \E i \in 1..Len(docks) : CloseDock(i)
    \/ \E operation \in DockOperations : ShowForm(operation)
    \/ \E i \in 1..Len(op_form.a_items) : SelectA(op_form.a_items[i])
    \/ \E i \in 1..Len(op_form.b_items) : SelectB(op_form.b_items[i])
    \/ ResetForm
    \/ Create

SpecDocks == Init /\ [][NextDocks]_vars

-----------------------------------------------------------------------------
(* Claims about the dock lifecycle, checked under SpecDocks.               *)

\* C1: no two open docks with the same title carry the same instance number
\* (the suffix shown in the dock's title bar).
C1_DistinctSuffixes ==
    \A i, j \in 1..Len(docks) :
        (i # j /\ docks[i].title = docks[j].title)
            => docks[i].instance_number # docks[j].instance_number

\* C2: the array of every open dock has the shape of the first array
\* registered, and the enforced shape is that shape in every state.
C2_SharedShape ==
    /\ enforced_shape = arrays[1].shape
    /\ \A i \in 1..Len(docks) : docks[i].array.shape = arrays[1].shape

\* C2 witness: an array of another shape has just been refused while several
\* docks are open.
C2_Witness ==
    /\ last[1] = "register_array"
    /\ last[2] = TransposedShape
    /\ err = "ValueError"
    /\ Len(docks) >= 2

\* C3: a registration of an array whose shape differs from the enforced shape
\* ends with an error and leaves the dock list, the counters and the enforced
\* shape as they were.
C3_RejectedUnchanged ==
    [][(last'[1] = "register_array" /\ last'[2] # enforced_shape)
          => /\ err' # "none"
             /\ docks' = docks
             /\ dock_instances' = dock_instances
             /\ enforced_shape' = enforced_shape]_vars

\* C17: a registration of an array that does not have exactly three
\* dimensions ends with a ValueError and adds no dock: the dock list is as it
\* was.
C17_WrongNdimRejected ==
    [][(last'[1] = "register_array" /\ Len(last'[2]) # 3)
          => /\ err' = "ValueError"
             /\ docks' = docks]_vars

\* C17 witness: a 4-dimensional array whose last three dimensions are the
\* enforced shape has just been refused by ArrayDock.__init__ (the counter of
\* its title was already incremented).
C17_Witness ==
    /\ last[1] = "register_array"
    /\ last[2] = StackedShape
    /\ err = "ValueError"
    /\ Len(docks) >= 1
    /\ DictGet(dock_instances, last[3], 0)
         > Cardinality({i \in 1..Len(docks) : docks[i].title = last[3]})

\* C22: the counter stored for each title equals the number of open docks
\* with that title, and every open dock's title has a counter.
C22_CounterCountsDocks ==
    /\ \A i \in 1..Len(docks) : docks[i].title \in DOMAIN dock_instances
    /\ \A title \in DOMAIN dock_instances :
          dock_instances[title]
            = Cardinality({i \in 1..Len(docks) : docks[i].title = title})

\* C25: the operation panel is enabled exactly when at least two docks that
\* are not copies (instance number 1) are open.
C25_PanelEnabledIffTwo ==
    op_enabled
      = (Cardinality({i \in 1..Len(docks) : docks[i].instance_number = 1}) >= 2)

\* C25 witness: a duplication has just left two docks open with the panel
\* still disabled, the copy not counting.
C25_Witness ==
    /\ last[1] = "duplicate_dock"
    /\ err = "none"
    /\ Len(docks) >= 2
    /\ ~op_enabled

\* C12: a dock created by register_array has no close control (so it can
\* never leave the dock list); only duplicates and derived docks are closable.
C12_RegisteredNotClosable ==
    [][(last'[1] = "register_array" /\ err' = "none")
          => /\ Len(docks') = Len(docks) + 1
             /\ ~docks'[Len(docks')].closable]_vars

\* C13: closing a dock removes exactly that dock from the list and takes one
\* off the counter of its title; the other docks, the other counters, the
\* frame index and the enforced shape stay as they were.
C13_CloseRemovesOne ==
    [][last'[1] = "close"
          => LET i == last'[2]
                 closed_title == docks[i].title
             IN  /\ Len(docks') = Len(docks) - 1
                 /\ \A k \in 1..(i - 1) : docks'[k] = docks[k]
                 /\ \A k \in i..Len(docks') : docks'[k] = docks[k + 1]
                 /\ DOMAIN dock_instances' = DOMAIN dock_instances
                 /\ \A t \in DOMAIN dock_instances :
                       dock_instances'[t] =
                           IF t = closed_title THEN dock_instances[t] - 1
                           ELSE dock_instances[t]
                 /\ slider' = slider
                 /\ enforced_shape' = enforced_shape]_vars

\* C13 witness: a dock that was neither first nor last of three has just been
\* closed, with docks of two titles open.
C13_Witness ==
    /\ last[1] = "close"
    /\ last[2] = 2
    /\ Len(docks) = 2
    /\ docks[1].title # docks[2].title
    /\ Cardinality(DOMAIN dock_instances) >= 2

-----------------------------------------------------------------------------
(* ArrayDock: colour controls and threshold rule.                          *)

\* vmin_spin.setValue(v); valueChanged -> update_clim when the value moved.
set_vmin(dock, v) ==
    LET spun == SpinSetValue(dock.vmin, v)
    IN  IF spun.value # dock.vmin.value
        THEN update_clim([dock EXCEPT !.vmin = spun])
        ELSE dock

\* vmax_spin.setValue(v); valueChanged -> update_clim when the value moved.
set_vmax(dock, v) ==
    LET spun == SpinSetValue(dock.vmax, v)
    IN  IF spun.value # dock.vmax.value
        THEN update_clim([dock EXCEPT !.vmax = spun])
        ELSE dock

\* A _show_threshold_form that writes the boolean result of the rule into the
\* array itself.
show_threshold_form_in_place(dock, operation) ==
    [dock EXCEPT
       !.threshold_op = operation,
       !.colour_enabled = FALSE,
       !.threshold_button_shown = FALSE,
       !.threshold_form_shown = TRUE,
       !.array = [dock.array EXCEPT !.data =
                     [idx \in DOMAIN dock.array.data |->
                         BoolValue(ThresholdCalc(operation, dock.array.data[idx],
                                                 dock.threshold_value.value))]]]

\* ArrayDock._show_threshold_form
show_threshold_form(dock, operation) ==
    LET cached == [dock EXCEPT !.colour_cache =
                       <<dock.cmap, dock.vmin.value, dock.vmax.value>>]
        low == set_vmin(cached, ThresholdLow * Unit)
        high == set_vmax(low, ThresholdHigh * Unit)
        armed == [high EXCEPT !.cmap = ThresholdColourmap,
                              !.colour_enabled = FALSE,
                              !.threshold_op = operation,
                              !.threshold_button_shown = FALSE,
                              !.threshold_form_shown = TRUE]
    IN  set_frame(armed, armed.frame)

\* A _cancel_threshold that drops the rule but leaves the colour controls
\* disabled.
cancel_threshold_still_disabled(dock) ==
    [dock EXCEPT !.threshold_op = NoThreshold,
                 !.threshold_form_shown = FALSE,
                 !.threshold_button_shown = TRUE]

\* ArrayDock._cancel_threshold
cancel_threshold(dock) ==
    LET old_cmap == dock.colour_cache[1]
        old_vmin == dock.colour_cache[2]
        old_vmax == dock.colour_cache[3]
        enabled == [dock EXCEPT !.colour_enabled = TRUE]
        low == set_vmin(enabled, old_vmin)
        high == set_vmax(low, old_vmax)
        disarmed == [high EXCEPT !.cmap = old_cmap,
                                 !.threshold_op = NoThreshold,
                                 !.threshold_form_shown = FALSE,
                                 !.threshold_button_shown = TRUE]
    IN  set_frame(disarmed, disarmed.frame)

\* threshold_value_spin.setValue(v); valueChanged -> set_frame(_frame) when
\* the value moved.
set_threshold_value(dock, v) ==
    LET spun == SpinSetValue(dock.threshold_value, v)
    IN  IF spun.value # dock.threshold_value.value
        THEN set_frame([dock EXCEPT !.threshold_value = spun], dock.frame)
        ELSE dock

\* The variables a handler of one dock leaves alone.
DockOnly ==
    UNCHANGED <<panel, arrays, num_frames, enforced_shape, dock_instances, slider,
                play_checked, timer_active, crosshair_checked, op_enabled, op_form>>

\* An entry of the "New threshold rule" menu: _show_threshold_form
ShowThresholdForm(i, operation) ==
    /\ docks[i].threshold_button_shown
    /\ \E nd \in {show_threshold_form(docks[i], operation)} :
          docks' = [docks EXCEPT ![i] = nd]
    /\ last' = <<"show_threshold_form", i>>
    /\ err' = "none"
    /\ DockOnly

\* The Cancel button of the threshold form: _cancel_threshold
CancelThreshold(i) ==
    /\ docks[i].threshold_form_shown
    /\ \E nd \in {cancel_threshold(docks[i])} : docks' = [docks EXCEPT ![i] = nd]
    /\ last' = <<"cancel_threshold", i>>
    /\ err' = "none"
    /\ DockOnly

\* The user edits the threshold value (the form is visible).
SetThresholdValue(i, v) ==
    /\ docks[i].threshold_form_shown
    /\ SpinSetValue(docks[i].threshold_value, v).value # docks[i].threshold_value.value
    /\ \E nd \in {set_threshold_value(docks[i], v)} :
          docks' = [docks EXCEPT ![i] = nd]
    /\ last' = <<"set_threshold_value", i>>
    /\ err' = "none"
    /\ DockOnly

\* The user edits vmin (the spin box is enabled).
SetVmin(i, v) ==
    /\ docks[i].colour_enabled
    /\ SpinSetValue(docks[i].vmin, v).value # docks[i].vmin.value
    /\ \E nd \in {set_vmin(docks[i], v)} : docks' = [docks EXCEPT ![i] = nd]
    /\ last' = <<"set_vmin", i>>
    /\ err' = "none"
    /\ DockOnly

\* The user edits vmax (the spin box is enabled).
SetVmax(i, v) ==
    /\ docks[i].colour_enabled
    /\ SpinSetValue(docks[i].vmax, v).value # docks[i].vmax.value
    /\ \E nd \in {set_vmax(docks[i], v)} : docks' = [docks EXCEPT ![i] = nd]
    /\ last' = <<"set_vmax", i>>
    /\ err' = "none"
    /\ DockOnly

\* The user picks a colormap (the combo box is enabled): update_colormap
SetCmap(i, name) ==
    /\ docks[i].colour_enabled
    /\ name # docks[i].cmap
    /\ docks' = [docks EXCEPT ![i].cmap = name]
    /\ last' = <<"update_colormap", i>>
    /\ err' = "none"
    /\ DockOnly

-----------------------------------------------------------------------------
(* ArrayViewerApp: frame slider, playback and keys.                        *)

\* A slider whose range ends one past the last frame.
SliderMaximumOffByOne == num_frames

\* slider.setRange(0, num_frames - 1)
SliderMaximum == num_frames - 1

\* QSlider.setValue: the value is bound into the range; valueChanged ->
\* update_frames only when it moved.
SliderSetValue(v) ==
    \E bounded \in {Clip(v, 0, SliderMaximum)} :
        IF bounded = slider
        THEN /\ UNCHANGED <<slider, docks>>
             /\ err' = "none"
        ELSE /\ slider' = bounded
             /\ \E ds \in {update_frames(docks, bounded)} : docks' = ds
             /\ err' = FramesError(docks, bounded)

\* The variables a frame handler leaves alone.
FrameOnly ==
    UNCHANGED <<panel, arrays, num_frames, enforced_shape, dock_instances,
                crosshair_checked, op_enabled, op_form>>

\* The user drags the slider to another position.
SliderMove(v) ==
    /\ v \in 0..SliderMaximum
    /\ v # slider
    /\ SliderSetValue(v)
    /\ last' = <<"slider", slider>>
    /\ UNCHANGED <<play_checked, timer_active>>
    /\ FrameOnly

\* An advance_frame that stops at the last frame instead of wrapping.
advance_frame_saturating(value) == Min(value + 1, num_frames - 1)

\* An advance_frame that steps two frames at a time.
advance_frame_by_two(value) == (value + 2) % num_frames

\* ArrayViewerApp.advance_frame: the frame handed to slider.setValue.
advance_frame(value) == (value + 1) % num_frames

\* timer.timeout -> advance_frame, while the timer runs.
Tick ==
    /\ timer_active
    /\ SliderSetValue(advance_frame(slider))
    /\ last' = <<"advance_frame", slider>>
    /\ UNCHANGED <<play_checked, timer_active>>
    /\ FrameOnly

\* A toggle_play that starts the timer whatever the button shows.
toggle_play_always_starts(checked) == TRUE

\* ArrayViewerApp.toggle_play
toggle_play(checked) == checked

\* A Right key that wraps to the first frame as the timer does.
KeyRightWrapping ==
    /\ SliderSetValue((slider + 1) % num_frames)
    /\ last' = <<"key_right", slider>>
    /\ UNCHANGED <<play_checked, timer_active>>
    /\ FrameOnly

\* keyPressEvent, Key_Right
KeyRight ==
    /\ SliderSetValue(Min(slider + 1, num_frames - 1))
    /\ last' = <<"key_right", slider>>
    /\ UNCHANGED <<play_checked, timer_active>>
    /\ FrameOnly

\* keyPressEvent, Key_Left
KeyLeft ==
    /\ SliderSetValue(Max(slider - 1, 0))
    /\ last' = <<"key_left", slider>>
    /\ UNCHANGED <<play_checked, timer_active>>
    /\ FrameOnly

\* keyPressEvent, Key_Space: play_button.toggle() then toggle_play()
KeySpace ==
    /\ play_checked' = ~play_checked
    /\ timer_active' = toggle_play(play_checked')
    /\ last' = <<"key_space">>
    /\ err' = "none"
    /\ UNCHANGED <<slider, docks>>
    /\ FrameOnly

\* A click on the Play button: the button toggles, clicked -> toggle_play
PlayClicked ==
    /\ play_checked' = ~play_checked
    /\ timer_active' = toggle_play(play_checked')
    /\ last' = <<"play_clicked">>
    /\ err' = "none"
    /\ UNCHANGED <<slider, docks>>
    /\ FrameOnly

-----------------------------------------------------------------------------
(* Cursor: mouse_moved, broadcast_cursor, sync_crosshair.                  *)

\* A broadcast_cursor that reaches the first dock only.
broadcast_cursor_first_only(ds, x, y) ==
    IF ds = <<>> THEN <<>> ELSE <<sync_crosshair(Head(ds), x, y)>> \o Tail(ds)

\* ArrayViewerApp.broadcast_cursor
RECURSIVE broadcast_cursor(_, _, _)
broadcast_cursor(ds, x, y) ==
    IF ds = <<>> THEN <<>>
    ELSE Only({<<d>> : d \in {sync_crosshair(Head(ds), x, y)}})
         \o broadcast_cursor(Tail(ds), x, y)

\* Axis lengths taken without the reversal: (height, width).
ClipShapeUnreversed(array) == <<array.shape[2], array.shape[3]>>

\* The axis lengths mouse_moved clips against: shape[1:][::-1], (width, height).
ClipShape(array) == <<array.shape[3], array.shape[2]>>

\* ArrayDock.mouse_moved: the coordinates emitted for a pointer at view
\* position (x, y), in halves of a pixel: centre-align, round to the nearest
\* pixel, clip into the data, move back to the pixel centre.
EmittedCursor(array, x, y) ==
    LET limits == ClipShape(array)
        px == Clip(RoundHalves(x - 1), 0, limits[1] - 1)
        py == Clip(RoundHalves(y - 1), 0, limits[2] - 1)
    IN  <<2 * px + 1, 2 * py + 1>>

\* A pointer move over the plot of dock i, mapped to view position (x, y);
\* update_cursor_signal reaches the dock's own sync_crosshair, then
\* broadcast_cursor.  A pointer outside the view box is ignored.
MouseMoved(i, in_view_box, x, y) ==
    /\ IF in_view_box
       THEN \E e \in {EmittedCursor(docks[i].array, x, y)} :
              /\ \E ds \in {broadcast_cursor(
                               [docks EXCEPT ![i] = sync_crosshair(docks[i], e[1], e[2])],
                               e[1], e[2])} : docks' = ds
              /\ last' = <<"mouse_moved", i, e[1], e[2]>>
       ELSE /\ UNCHANGED docks
            /\ last' = <<"mouse_ignored", i>>
    /\ err' = "none"
    /\ DockOnly

\* A direct call of sync_crosshair(x, y) on dock i.
SyncCrosshair(i, x, y) ==
    /\ \E nd \in {sync_crosshair(docks[i], x, y)} : docks' = [docks EXCEPT ![i] = nd]
    /\ last' = <<"sync_crosshair", i, x, y>>
    /\ err' = "none"
    /\ DockOnly

\* ArrayViewerApp.toggle_crosshair_visbility
toggle_crosshair_visbility(ds, visible) ==
    [i \in 1..Len(ds) |-> [ds[i] EXCEPT !.crosshair_visible = visible]]

\* The Crosshair check box, or Key_C: stateChanged -> toggle_crosshair_visbility
ToggleCrosshair ==
    /\ crosshair_checked' = ~crosshair_checked
    /\ docks' = toggle_crosshair_visbility(docks, crosshair_checked')
    /\ last' = <<"toggle_crosshair">>
    /\ err' = "none"
    /\ UNCHANGED <<panel, arrays, num_frames, enforced_shape, dock_instances, slider,
                   play_checked, timer_active, op_enabled, op_form>>

-----------------------------------------------------------------------------
(* Colour range and threshold rule of the docks.                           *)

\* The numbers a user types into a spin box: the least, the median and the
\* greatest value of the dock's array.
SpinInputs(i) ==
    {nanmin(docks[i].array), nanpercentile(docks[i].array, MidPercentile),
     nanmax(docks[i].array)}

\* The colormaps a user picks.
CmapInputs == {COLOURMAPS[1], COLOURMAPS[2]}

\* The dock whose controls are operated; the docks of a window are built
\* alike, and either sample can be the first.
ColourDocks == {1}

\* The rule armed there; the colour controls are handled alike for every rule.
ColourThresholds == {THRESHOLD_OPERATIONS[1]}

NextColour ==
    \/ \E i \in ColourDocks, operation \in ColourThresholds :
          ShowThresholdForm(i, operation)
    \/ \E i \in ColourDocks : CancelThreshold(i)
    \/ \E i \in ColourDocks : \E v \in SpinInputs(i) : SetThresholdValue(i, v)
    \/ \E i \in ColourDocks : \E v \in SpinInputs(i) : SetVmin(i, v)
    \/ \E i \in ColourDocks : \E v \in SpinInputs(i) : SetVmax(i, v)
    \/ \E i \in ColourDocks, name \in CmapInputs : SetCmap(i, name)
    \/ \E v \in 0..SliderMaximum : SliderMove(v)

SpecColour == Init /\ [][NextColour]_vars

C4_ColourRestored ==
    [][last'[1] = "cancel_threshold"
          => LET before == docks[last'[2]].colour_cache
                 after == docks'[last'[2]]
             IN  /\ after.cmap = before[1]
                 /\ after.vmin.value = before[2]
                 /\ after.vmax.value = before[3]]_vars

-----------------------------------------------------------------------------
(* Frame navigation and playback over a changing set of docks.             *)

NextFrame ==
    \/ Tick
    \/ KeyRight
    \/ KeyLeft
    \/ KeySpace
    \/ PlayClicked
    \/ \E v \in 0..SliderMaximum : SliderMove(v)
    \/ \E i \in 1..Len(docks) : DuplicateDock(i)
    \/ \E i \in 1..Len(docks) : CloseDock(i)
    \/ \E i \in ColourDocks, operation \in ColourThresholds :
          ShowThresholdForm(i, operation)
    \/ \E i \in ColourDocks : CancelThreshold(i)

SpecFrame == Init /\ [][NextFrame]_vars

\* C5: the frame index of the slider lies in [0, num_frames - 1] in every
\* state, every dock shows a frame of its array, and no frame change ends in
\* an IndexError.
C5_FrameInRange ==
    /\ slider \in 0..(num_frames - 1)
    /\ \A i \in 1..Len(docks) : docks[i].frame \in 0..(Frames(docks[i].array) - 1)
    /\ err # "IndexError"

\* C5 witness: Key_Right pressed on the last frame, which stays the last frame.
C5_Witness ==
    /\ last = <<"key_right", num_frames - 1>>
    /\ slider = num_frames - 1
    /\ num_frames >= 2

\* C6: a timer tick at frame f moves the frame index to (f + 1) mod
\* num_frames: one further, and from the last index back to 0.
C6_TickAdvances ==
    [][last'[1] = "advance_frame"
          => /\ slider < num_frames - 1 => slider' = slider + 1
             /\ slider = num_frames - 1 => slider' = 0]_vars

\* C6 witness: a tick has just wrapped from the last frame to frame 0.
C6_Witness ==
    /\ last = <<"advance_frame", num_frames - 1>>
    /\ slider = 0
    /\ num_frames >= 2

\* C7: in the step that changes the frame index, every open dock is set to
\* the new index, shows the image of that frame with its threshold rule
\* applied, and has its colour levels set from vmin and vmax.
C7_AllDocksFollow ==
    [][slider' # slider
          => \A i \in 1..Len(docks') :
                LET d == docks'[i]
                IN  /\ d.frame = slider'
                    /\ d.levels = <<d.vmin.value, d.vmax.value>>
                    /\ \A r \in 0..(Height(d.array) - 1), c \in 0..(Width(d.array) - 1) :
                          d.image[<<c, r>>] =
                              IF d.threshold_op = NoThreshold
                              THEN d.array.data[<<slider', r, c>>]
                              ELSE IF ThresholdCalc(d.threshold_op,
                                                    d.array.data[<<slider', r, c>>],
                                                    d.threshold_value.value)
                                   THEN Unit ELSE 0]_vars

\* C7 witness: the frame index has just moved up by one with three docks
\* open, some under a threshold rule and some not.
C7_Witness ==
    /\ last[1] \in {"slider", "advance_frame", "key_right", "key_left"}
    /\ slider = last[2] + 1
    /\ Len(docks) >= 3
    /\ \E i \in 1..Len(docks) : docks[i].threshold_op # NoThreshold
    /\ \E i \in 1..Len(docks) : docks[i].threshold_op = NoThreshold

\* C23: every open dock shows the frame the slider is at, docks created by
\* duplication or derivation while the slider is away from frame 0 included.
C23_DocksAtControllerFrame ==
    \A i \in 1..Len(docks) : docks[i].frame = slider

\* C26: the Right key moves the frame index f to min(f + 1, num_frames - 1)
\* and the Left key to max(f - 1, 0); Right at the last frame and Left at
\* frame 0 leave the index and every dock unchanged.
C26_KeysSaturate ==
    [][/\ last'[1] = "key_right"
          => /\ slider' = Min(slider + 1, num_frames - 1)
             /\ slider = num_frames - 1 => docks' = docks
       /\ last'[1] = "key_left"
          => /\ slider' = Max(slider - 1, 0)
             /\ slider = 0 => docks' = docks]_vars

\* C26 witness: Right has just been pressed at the last of several frames.
C26_Witness ==
    /\ last = <<"key_right", num_frames - 1>>
    /\ num_frames >= 2
    /\ slider = num_frames - 1

\* C19: in every state the timer is running exactly when the Play button is
\* checked, and no advance_frame step is taken from a state in which the
\* button is unchecked.
C19_TimerFollowsPlay ==
    /\ [](timer_active = play_checked)
    /\ [][(~play_checked) => last'[1] # "advance_frame"]_vars

\* C19 witness: playback has just been paused by a Space press, away from
\* the first frame.
C19_Witness ==
    /\ last[1] = "key_space"
    /\ ~play_checked
    /\ ~timer_active
    /\ slider > 0

-----------------------------------------------------------------------------
(* The shared cursor.                                                      *)

\* View positions of the pointer, in halves of a pixel: from half a pixel
\* before the image to half a pixel past it.
PointerX == -1..(2 * MaxWidth + 1)
PointerY == -1..(2 * MaxHeight + 1)

\* The rules armed while the cursor moves: an inequality and the equality.
CursorThresholds ==
    {THRESHOLD_OPERATIONS[1], THRESHOLD_OPERATIONS[Len(THRESHOLD_OPERATIONS)]}

NextCursor ==
    \/ \E i \in 1..Len(docks), in_view_box \in BOOLEAN :
          \E x \in (IF in_view_box THEN PointerX ELSE {0}),
             y \in (IF in_view_box THEN PointerY ELSE {0}) :
                MouseMoved(i, in_view_box, x, y)
    \/ \E v \in 0..SliderMaximum : SliderMove(v)
    \/ \E i \in 1..Len(docks) : DuplicateDock(i)
    \/ \E i \in ColourDocks, operation \in CursorThresholds :
          ShowThresholdForm(i, operation)
    \/ \E i \in ColourDocks : CancelThreshold(i)
    \/ \E i \in ColourDocks : \E v \in SpinInputs(i) : SetThresholdValue(i, v)

SpecCursor == Init /\ [][NextCursor]_vars

\* The pixel under a cursor position given in halves of a pixel.
PixelOf(h) == (h - 1) \div 2

\* C8: right after a pointer move in any dock, every open dock holds the
\* emitted cursor position and its overlay shows its own array's value at its
\* own frame at that pixel, or the 1.000 / 0.000 of its threshold rule there.
C8_CursorShared ==
    last[1] = "mouse_moved"
        => \A i \in 1..Len(docks) :
              LET d == docks[i]
                  pixel == d.array.data[<<d.frame, PixelOf(last[4]), PixelOf(last[3])>>]
              IN  /\ d.cursor = <<last[3], last[4]>>
                  /\ d.pos_text = <<PixelOf(last[3]), PixelOf(last[4])>>
                  /\ ~d.value_text.nan
                  /\ d.value_text.milli =
                        IF d.threshold_op = NoThreshold THEN pixel
                        ELSE IF ThresholdCalc(d.threshold_op, pixel,
                                              d.threshold_value.value)
                             THEN Unit ELSE 0

\* C8 witness: a pointer move in the second dock has reached a first dock
\* under a threshold rule and a copy that still shows another frame.
C8_Witness ==
    /\ last[1] = "mouse_moved"
    /\ last[2] = 2
    /\ last[3] > 1
    /\ Len(docks) >= 3
    /\ docks[1].threshold_op # NoThreshold
    /\ docks[1].value_text.milli = Unit
    /\ \E i \in 1..Len(docks) : docks[i].frame # slider

\* C9: the cursor position a pointer move emits is the centre of a pixel of
\* the array: column in [0, width - 1], row in [0, height - 1].
C9_CursorClamped ==
    last[1] = "mouse_moved"
        => /\ last[3] % 2 = 1
           /\ last[4] % 2 = 1
           /\ PixelOf(last[3]) \in 0..(Width(docks[last[2]].array) - 1)
           /\ PixelOf(last[4]) \in 0..(Height(docks[last[2]].array) - 1)

\* C9 witness: a pointer move has been clamped to the last column.
C9_Witness ==
    /\ last[1] = "mouse_moved"
    /\ PixelOf(last[3]) = Width(docks[last[2]].array) - 1
    /\ PixelOf(last[4]) = Height(docks[last[2]].array) - 1
    /\ Width(docks[last[2]].array) # Height(docks[last[2]].array)

-----------------------------------------------------------------------------
(* sync_crosshair called with arbitrary coordinates.                       *)

\* The coordinates handed to sync_crosshair, in halves of a pixel: from one
\* pixel more than the image's extent below zero to one pixel past the image.
SyncX == (-2 * (MaxWidth + 1))..(2 * (MaxWidth + 1))
SyncY == (-2 * (MaxHeight + 1))..(2 * (MaxHeight + 1))

NextSync ==
    \/ \E i \in ColourDocks, x \in SyncX, y \in SyncY : SyncCrosshair(i, x, y)
    \/ \E v \in 0..SliderMaximum : SliderMove(v)
    \/ \E i \in ColourDocks, operation \in ColourThresholds :
          ShowThresholdForm(i, operation)
    \/ \E i \in ColourDocks : CancelThreshold(i)

SpecSync == Init /\ [][NextSync]_vars

\* The pixel int(x) lies outside an axis of length n.
OutsideAxis(x, n) == IntOfHalves(x) < 0 \/ IntOfHalves(x) >= n

\* C10: after sync_crosshair(x, y) with a pixel outside the array, negative
\* coordinates included, the overlay shows the NaN sentinel and no error was
\* raised.
C10_OutsideShowsNaN ==
    (/\ last[1] = "sync_crosshair"
     /\ \/ OutsideAxis(last[3], Width(docks[last[2]].array))
        \/ OutsideAxis(last[4], Height(docks[last[2]].array)))
        => /\ docks[last[2]].value_text = NaNText
           /\ err = "none"

-----------------------------------------------------------------------------
(* Derivation of new arrays with every operation of the panel.             *)

DeriveOperations == {TWO_PIECE_OPERATIONS[k] : k \in 1..Len(TWO_PIECE_OPERATIONS)}

NextDerive ==
    \/ \E operation \in DeriveOperations : ShowForm(operation)
    \/ \E i \in 1..Len(op_form.a_items) : SelectA(op_form.a_items[i])
    \/ \E i \in 1..Len(op_form.b_items) : SelectB(op_form.b_items[i])
    \/ ResetForm
    \/ Create
    \/ \E i \in 1..Len(docks) : DuplicateDock(i)
    \/ \E i \in 1..Len(docks) : CloseDock(i)

SpecDerive == Init /\ [][NextDerive]_vars

\* The array of the first original dock titled title.
OperandArray(title) ==
    docks[CHOOSE i \in 1..Len(docks) :
            /\ docks[i].title = title
            /\ docks[i].instance_number = 1
            /\ \A j \in 1..(i - 1) :
                  ~(docks[j].title = title /\ docks[j].instance_number = 1)].array

\* Create was pressed with both operands present, and the operation divides
\* by an element that is zero.
DividesByZero ==
    /\ last'[1] = "create"
    /\ last'[3] = "/"
    /\ \E i \in 1..Len(docks) : docks[i].title = last'[2] /\ docks[i].instance_number = 1
    /\ \E i \in 1..Len(docks) : docks[i].title = last'[4] /\ docks[i].instance_number = 1
    /\ \E idx \in DOMAIN OperandArray(last'[4]).data : OperandArray(last'[4]).data[idx] = 0

\* C11: an operation whose result is not finite is aborted with a
\* FloatingPointError warning: no dock is created, and the dock list and the
\* per-title counters stay as they were.
C11_NonFiniteAborted ==
    [][DividesByZero
          => /\ err' = "FloatingPointError"
             /\ docks' = docks
             /\ dock_instances' = dock_instances]_vars

\* C11 witness: a division by an array holding a zero has just been refused,
\* with the form still open.
C11_Witness ==
    /\ last[1] = "create"
    /\ last[3] = "/"
    /\ err = "FloatingPointError"
    /\ op_form.shown

\* The title names a dock that is neither a duplicate nor derived.
TitleOfOriginal(title) ==
    \E i \in 1..Len(docks) :
        /\ docks[i].title = title
        /\ docks[i].instance_number = 1
        /\ ~docks[i].is_derived

\* C18: every successful derivation appends one derived dock whose title is
\* the first operand's title, a space, the operator symbol, a space and the
\* second operand's title, whatever the state it is performed in.
C18_DerivedTitleExact ==
    [][(last'[1] = "create" /\ err' = "none")
          => /\ Len(docks') = Len(docks) + 1
             /\ docks'[Len(docks')].is_derived
             /\ docks'[Len(docks')].title
                  = last'[2] \o " " \o last'[3] \o " " \o last'[4]]_vars

\* C18 witness: a derivation with the operands chosen in the order that is
\* not the form's default has just succeeded.
C18_Witness ==
    /\ last[1] = "create"
    /\ err = "none"
    /\ last[2] = "B"
    /\ last[4] = "A"
    /\ docks[Len(docks)].title = "B " \o last[3] \o " A"
    /\ docks[Len(docks)].is_derived

\* A title of a currently open dock that is not a copy.
TitleOfNonCopy(title) ==
    \E i \in 1..Len(docks) : docks[i].title = title /\ ~is_copy(docks[i])

\* C24: whenever Create is invoked, both selected titles are titles of open
\* non-copy docks and differ, and the step ends by registering a dock or with
\* the non-finite warning, never with a failed lookup.
C24_CreateResolves ==
    [][last'[1] = "create"
          => /\ TitleOfNonCopy(last'[2])
             /\ TitleOfNonCopy(last'[4])
             /\ last'[2] # last'[4]
             /\ err' \in {"none", "FloatingPointError"}]_vars

\* C14: the operands the form offers when it opens, and the operands a
\* successful Create uses, are docks that are neither duplicates nor derived.
C14_OperandsOriginal ==
    [][/\ last'[1] = "show_form"
          => /\ \A k \in 1..Len(op_form'.a_items) : TitleOfOriginal(op_form'.a_items[k])
             /\ \A k \in 1..Len(op_form'.b_items) : TitleOfOriginal(op_form'.b_items[k])
       /\ (last'[1] = "create" /\ err' = "none")
          => /\ TitleOfOriginal(last'[2])
             /\ TitleOfOriginal(last'[4])]_vars

-----------------------------------------------------------------------------
(* Threshold rules on every dock, with duplicates and frame changes.       *)

\* The docks whose threshold controls are operated: the first two.
ThresholdDocks == 1..Min(2, Len(docks))

NextThreshold ==
    \/ \E i \in ThresholdDocks, operation \in ColourThresholds :
          ShowThresholdForm(i, operation)
    \/ \E i \in ThresholdDocks : CancelThreshold(i)
    \/ \E i \in ColourDocks : \E v \in SpinInputs(i) : SetThresholdValue(i, v)
    \/ \E i \in 1..Len(docks) : DuplicateDock(i)
    \/ \E v \in 0..SliderMaximum : SliderMove(v)

SpecThreshold == Init /\ [][NextThreshold]_vars

\* C15: arming, adjusting or cancelling a threshold rule on one dock leaves
\* that dock's array as it was and every other dock (frame, threshold state,
\* colour configuration, array) as it was, duplicates of the dock included.
C15_OthersUntouched ==
    [][last'[1] \in {"show_threshold_form", "set_threshold_value", "cancel_threshold"}
          => /\ Len(docks') = Len(docks)
             /\ docks'[last'[2]].array = docks[last'[2]].array
             /\ \A j \in 1..Len(docks) : j # last'[2] => docks'[j] = docks[j]
             /\ arrays' = arrays]_vars

\* C15 witness: the value of a rule armed on a dock has just been changed
\* while a duplicate of that dock is open with no rule.
C15_Witness ==
    /\ last[1] = "set_threshold_value"
    /\ \E j \in 1..Len(docks) :
          /\ j # last[2]
          /\ docks[j].title = docks[last[2]].title
          /\ docks[j].array = docks[last[2]].array
          /\ docks[j].threshold_op = NoThreshold
          /\ docks[j].image # docks[last[2]].image

\* C16: on every dock a threshold rule is armed exactly when the colour
\* controls are disabled, the threshold form is shown and the "Add threshold"
\* button is hidden; with no rule the colour controls are enabled.
C16_ThresholdUiAgrees ==
    \A i \in 1..Len(docks) :
        /\ (docks[i].threshold_op # NoThreshold) = ~docks[i].colour_enabled
        /\ (docks[i].threshold_op # NoThreshold) = docks[i].threshold_form_shown
        /\ (docks[i].threshold_op # NoThreshold) = ~docks[i].threshold_button_shown

\* C16 witness: a rule has been cancelled on one dock while another dock is
\* under a rule.
C16_Witness ==
    /\ last[1] = "cancel_threshold"
    /\ docks[last[2]].colour_enabled
    /\ \E j \in 1..Len(docks) : docks[j].threshold_op # NoThreshold

-----------------------------------------------------------------------------
(* Playback left alone: the user prepares the viewer while it is paused,   *)
(* starts playback, and from then on only the timer acts.  The timer is a  *)
(* QTimer started with the interval of toggle_play: while it is active the *)
(* event loop delivers its timeout again and again, which is the weak      *)
(* fairness of Tick.                                                       *)

NextPlayback ==
    \/ ~play_checked /\ KeyRight
    \/ ~play_checked /\ KeyLeft
    \/ ~play_checked /\ \E v \in 0..SliderMaximum : SliderMove(v)
    \/ ~play_checked /\ \E i \in 1..Len(docks) : DuplicateDock(i)
    \/ ~play_checked /\ PlayClicked
    \/ Tick

SpecPlayback == Init /\ [][NextPlayback]_vars /\ WF_vars(Tick)

\* C27: while playback is on and only the timer acts, every frame index of
\* 0..num_frames-1 is shown by the slider and by every dock again and again,
\* and each tick goes from frame f to (f + 1) mod num_frames: increasing
\* cyclic order from the current frame.
C27_PlaybackCycles ==
    /\ \A f \in 0..(MaxFrames - 1) :
          [](timer_active /\ f < num_frames
               => <>(/\ slider = f
                     /\ \A i \in 1..Len(docks) : docks[i].frame = f))
    /\ [][last'[1] = "advance_frame"
            => slider' = (slider + 1) % num_frames]_vars

\* C27 witness: during playback a tick has just wrapped to frame 0 with a
\* duplicate, created while paused, open and shown at frame 0 as well.
C27_Witness ==
    /\ timer_active
    /\ last = <<"advance_frame", num_frames - 1>>
    /\ slider = 0
    /\ Len(docks) >= 2
    /\ \E i \in 1..Len(docks) : is_copy(docks[i])
    /\ \A i \in 1..Len(docks) : docks[i].frame = 0

-----------------------------------------------------------------------------
(* The Crosshair checkbox over the dock lifecycle.                         *)

NextCrosshair ==
    \/ ToggleCrosshair
    \/ NextDocks

SpecCrosshair == Init /\ [][NextCrosshair]_vars

\* C29: the crosshair and the value overlays of every open dock are visible
\* exactly when the Crosshair checkbox is checked, docks created after the
\* checkbox was unchecked included.
C29_CrosshairFollowsCheckbox ==
    \A i \in 1..Len(docks) : docks[i].crosshair_visible = crosshair_checked

-----------------------------------------------------------------------------
(* The image-configuration panels of the first dock: edits by the user,    *)
(* set_config (a pasted configuration) and the reset button.               *)

PanelOnly ==
    UNCHANGED <<arrays, num_frames, enforced_shape, docks, dock_instances, slider,
                play_checked, timer_active, crosshair_checked, op_enabled, op_form>>

PanelVersions == {"settings", "configuration"}

\* The numbers typed or pasted: the least, the median and the greatest value
\* of the parent dock's array.
PanelValues ==
    {nanmin(docks[1].array), nanpercentile(docks[1].array, MidPercentile),
     nanmax(docks[1].array)}

\* The configurations handed to set_config: a listed colormap and
\* data_min <= vmin <= vmax <= data_max.
ConfigInputs ==
    {c \in [cmap : CmapInputs, vmin : PanelValues, vmax : PanelValues] :
        c.vmin <= c.vmax}

\* The user edits the minimum: valueChanged -> _on_config_changed
PanelSetVmin(which, v) ==
    /\ SpinSetValue(panel[which].vmin, v).value # panel[which].vmin.value
    /\ \E np \in {panel_set_vmin(panel[which], v)} :
          panel' = [panel EXCEPT ![which] = np]
    /\ last' = <<"panel_set_vmin", which>>
    /\ err' = "none"
    /\ PanelOnly

\* The user edits the maximum: valueChanged -> _on_config_changed
PanelSetVmax(which, v) ==
    /\ SpinSetValue(panel[which].vmax, v).value # panel[which].vmax.value
    /\ \E np \in {panel_set_vmax(panel[which], v)} :
          panel' = [panel EXCEPT ![which] = np]
    /\ last' = <<"panel_set_vmax", which>>
    /\ err' = "none"
    /\ PanelOnly

\* The user picks a colormap: currentTextChanged -> _on_config_changed
PanelSetCmap(which, name) ==
    /\ name # panel[which].cmap
    /\ \E np \in {panel_set_cmap(panel[which], name)} :
          panel' = [panel EXCEPT ![which] = np]
    /\ last' = <<"panel_set_cmap", which>>
    /\ err' = "none"
    /\ PanelOnly

\* set_config(config) on the panel of image_settings
SettingsSetConfig(config) ==
    /\ \E np \in {settings_set_config(panel.settings, config)} :
          panel' = [panel EXCEPT !.settings = np]
    /\ last' = <<"set_config", "settings", config>>
    /\ err' = "none"
    /\ PanelOnly

\* set_config(config) on the panel of panels/image_configuration
ConfigurationSetConfig(config) ==
    /\ \E np \in {configuration_set_config(panel.configuration, config)} :
          panel' = [panel EXCEPT !.configuration = np]
    /\ last' = <<"set_config", "configuration", config>>
    /\ err' = "none"
    /\ PanelOnly

\* The reset button: _set_to_data_range; last keeps the configuration the
\* panel had before.
SetToDataRange ==
    /\ \E np \in {set_to_data_range(panel.configuration, docks[1].array)} :
          panel' = [panel EXCEPT !.configuration = np]
    /\ last' = <<"set_to_data_range", get_config(panel.configuration)>>
    /\ err' = "none"
    /\ PanelOnly

NextPanel ==
    \/ \E which \in PanelVersions, v \in PanelValues : PanelSetVmin(which, v)
    \/ \E which \in PanelVersions, v \in PanelValues : PanelSetVmax(which, v)
    \/ \E which \in PanelVersions, name \in CmapInputs : PanelSetCmap(which, name)
    \/ \E config \in ConfigInputs : SettingsSetConfig(config)
    \/ \E config \in ConfigInputs : ConfigurationSetConfig(config)
    \/ SetToDataRange

SpecPanel == Init /\ [][NextPanel]_vars

\* C21: whatever the state of the panel, after set_config(c) with a listed
\* colormap and data_min <= c.vmin <= c.vmax <= data_max, get_config()
\* returns c.
C21_ConfigRoundTrip ==
    [][last'[1] = "set_config"
          => get_config(panel'[last'[2]]) = last'[3]]_vars

=============================================================================
